---- MODULE Spec2Model ----
(***************************************************************************)
(* Model of the ORB object-detection session of                            *)
(* src/app/pages/object-detector/model/use-surf-detector.ts:               *)
(* detectAndMatch (session setup), process (one tick of the frame loop,    *)
(* driven by requestAnimationFrame) and stop.                              *)
(*                                                                         *)
(* Native OpenCV objects are tracked as counts of live objects per         *)
(* allocation site.  The outcome of every call into the browser or into    *)
(* OpenCV (video state, capture, cvtColor, detectAndCompute, match,        *)
(* findHomography, perspectiveTransform, the visualisation block) is a     *)
(* nondeterministic choice made where the code makes the call.             *)
(***************************************************************************)
EXTENDS Integers, Sequences, FiniteSets, TLC

\* ------------------------------------------------------------------ bounds
MaxTicks == 2        \* callbacks the browser delivers to one session
MaxStops == 2        \* calls of stop() on one session
MaxKp == 5           \* most descriptors of the reference or of one frame
MaxMatches == 22     \* longest match list given to the selection alone
MaxStride == 3       \* distance patterns of the generated match lists
MaxDist == 3         \* distances of generated matches are below MaxDist + 1
MaxGood == 32        \* longest good match list given to the visualisation alone
MaxClicks == 2       \* delayed starts requested on one page
MaxFrames == 3       \* frame requests of the page's video feed
MaxFaces == 3        \* most faces one call of detectFacesAndEyes finds
MaxLoopFrames == 4   \* frame requests of the home page's detection loop
MaxPending == 2      \* calls of getUserMedia of the home page not yet settled

\* ------------------------------------------------------- program constants
MinGoodMatches == 10      \* Math.max(numGoodMatches, 10)
MinHomographyMatches == 4 \* goodMatchesArray.length >= 4
MaxDrawnMatches == 30     \* Math.min(goodMatchesArray.length, 30)
TopMatches == 10          \* i < 10 ? green : yellow

VARIABLES
  phase,             \* "idle" before detectAndMatch, "active" after it returned
  hasMatchCanvas,    \* matchCanvas argument given
  objDescRows,       \* objDesc.rows, the number of reference descriptors
  objectMat,         \* objectMat.cols, objectMat.rows: the reference image's size
  isRunning,         \* let isRunning
  animationFrameId,  \* let animationFrameId (NullId for null)
  rafQueue,          \* ids of the process callbacks the browser has queued
  rafNext,           \* the id the next requestAnimationFrame returns
  rafCancelled,      \* ids cancelAnimationFrame removed from the queue
  executing,         \* number of process calls on the stack
  canvas,            \* canvas.width, canvas.height
  frame,             \* let frame: the Mat it refers to, or null
  live,              \* live native objects per allocation site
  deleteCalls,       \* delete() calls stop() made per session handle
  stopCalls,         \* number of stop() calls
  stopThrew,         \* some stop() call ended in an exception
  ticks,             \* process calls that went past the running check
  last,              \* what the latest tick did
  selIn, selOut, selDone,  \* the selection applied alone: input, output, applied
  visGood,           \* the visualisation alone: goodMatchesArray
  visObjKp,          \* objKp.size()
  visKp,             \* kp.size()
  visPairs,          \* the lines drawn on matchOutput, in drawing order
  visDone,           \* the visualisation was applied
  mounted,           \* the page component is mounted: video.value, canvas.value set
  camera,            \* initializeCamera: "loading", "streaming" or "failed"
  video,             \* the video element: hasSize, paused
  isDetecting,       \* isDetecting.value
  isCameraReady,     \* isCameraReady.value
  objectImage,       \* objectImage.value is not null
  detectorControls,  \* let detectorControls: a session of `sessions`, 0 for null
  videoFeedId,       \* let videoFeedId: a frame request id, NullId for null
  timers,            \* callbacks of setTimeout(..., 500) not yet run
  clicks,            \* delayed starts requested so far
  sessions,          \* the sessions detectAndMatch returned, in order
  feedQueue,         \* ids of the drawFrame callbacks the browser has queued
  feedNext,          \* the id the page's next requestAnimationFrame returns
  pageLast,          \* what the latest step of the page did
  homeMounted,       \* the home page component is mounted
  isLoaded,          \* isLoaded.value: OpenCV and both cascades are loaded
  homeStream,        \* stream.value of the home page is not null
  streamPending,     \* getUserMedia calls of startWebcam not yet settled
  homeDetecting,     \* isDetecting.value of the home page
  detectionLoopId,   \* let detectionLoopId: a frame request id, NullId for null
  loopQueue,         \* ids of the loop callbacks the browser has queued
  loopNext,          \* the id the home page's next requestAnimationFrame returns
  faceLast           \* what the call of detectFacesAndEyes in the latest step did

vars == <<phase, hasMatchCanvas, objDescRows, objectMat, isRunning,
          animationFrameId, rafQueue, rafNext, rafCancelled, executing, canvas,
          frame, live, deleteCalls, stopCalls, stopThrew, ticks, last,
          selIn, selOut, selDone, visGood, visObjKp, visKp, visPairs, visDone,
          mounted, camera, video, isDetecting, isCameraReady, objectImage,
          detectorControls, videoFeedId, timers, clicks, sessions, feedQueue,
          feedNext, pageLast, homeMounted, isLoaded, homeStream, streamPending,
          homeDetecting, detectionLoopId, loopQueue, loopNext, faceLast>>

sessionVars == <<phase, hasMatchCanvas, objDescRows, objectMat, isRunning,
                 animationFrameId, rafQueue, rafNext, rafCancelled, executing,
                 canvas, frame, live, deleteCalls, stopCalls, stopThrew, ticks,
                 last>>

selVars == <<selIn, selOut, selDone>>

visVars == <<visGood, visObjKp, visKp, visPairs, visDone>>

pageVars == <<mounted, camera, video, isDetecting, isCameraReady, objectImage,
              detectorControls, videoFeedId, timers, clicks, sessions, feedQueue,
              feedNext, pageLast>>

homeVars == <<homeMounted, isLoaded, homeStream, streamPending, homeDetecting,
              detectionLoopId, loopQueue, loopNext, faceLast>>

\* What the page's steps leave alone.
offPageVars == <<sessionVars, selVars, visVars, homeVars>>

\* What the home page's steps leave alone.
offHomeVars == <<sessionVars, selVars, visVars, pageVars>>

\* What the session's own steps leave alone.
asideVars == <<selVars, visVars, pageVars, homeVars>>

Min(a, b) == IF a < b THEN a ELSE b
Max(a, b) == IF a > b THEN a ELSE b

\* ------------------------------------------------------------ native heap
\* Objects the session keeps in closure variables and stop() deletes.
SessionHandles ==
  {"frame", "objectMat", "objectGray", "objKp", "objDesc", "detector", "matcher"}

\* Objects allocated by detectAndMatch that no variable keeps.
SetupTransients == {"setupMask", "objectDisplay"}

\* Objects allocated inside one call of process.
TickTransients ==
  {"gray", "tickMask", "kp", "desc", "matches", "objPoints", "scenePoints",
   "homography", "objCorners", "sceneCorners", "objResized", "frameResized",
   "matchOutput", "roi"}

Kinds == SessionHandles \cup SetupTransients \cup TickTransients

\* new cv.Mat(), new cv.KeyPointVector(), cv.imread, cv.matFromArray, ...
New(h, S, n) == [k \in Kinds |-> IF k \in S THEN h[k] + n ELSE h[k]]

\* x.delete() on live objects
Del(h, S) == [k \in Kinds |-> IF k \in S THEN h[k] - 1 ELSE h[k]]

NullId == 0
NullFrame == [isNull |-> TRUE, rows |-> 0, cols |-> 0, deleted |-> FALSE]
Mat(rows, cols) == [isNull |-> FALSE, rows |-> rows, cols |-> cols, deleted |-> FALSE]

NoTick ==
  [path |-> "none", fault |-> "none", uncaught |-> FALSE, result |-> "none",
   selected |-> FALSE, nMatches |-> 0, good |-> <<>>, hAttempted |-> FALSE,
   requests |-> 0, hNonEmpty |-> FALSE, homography |-> <<>>, corners |-> <<>>,
   zeroArea |-> FALSE, emitted |-> 0, detected |-> FALSE, descRows |-> 0,
   matcherCalled |-> FALSE, objLookups |-> {}, sceneLookups |-> {}]

\* ------------------------------------------------- match selection (pure)
\* A match as process copies it out of the DMatchVector.
Match(d, q, t) == [distance |-> d, queryIdx |-> q, trainIdx |-> t]

\* A faulty comparator that never answers "equal".
CompareMut(a, b) == IF a.distance < b.distance THEN -1 ELSE 1

\* The comparator given to Array.prototype.sort: (a, b) => a.distance - b.distance
Compare(a, b) == a.distance - b.distance

\* Array.prototype.sort is a stable sort: an element moves in front of another
\* only when the comparator says the other is greater.
RECURSIVE Insert(_, _)
Insert(x, s) ==
  IF s = <<>> THEN <<x>>
  ELSE IF Compare(Head(s), x) > 0 THEN <<x>> \o s
       ELSE <<Head(s)>> \o Insert(x, Tail(s))

RECURSIVE SortMatches(_)
SortMatches(s) ==
  IF s = <<>> THEN <<>>
  ELSE Insert(s[Len(s)], SortMatches(SubSeq(s, 1, Len(s) - 1)))

\* Math.floor(matchesArray.length * 0.5)
NumGoodMatches(n) == n \div 2

\* A faulty end index: the floor of 10 forgotten.
SliceEndMut(n) == NumGoodMatches(n)

\* The end index given to slice: Math.max(numGoodMatches, 10)
SliceEnd(n) == Max(NumGoodMatches(n), MinGoodMatches)

\* Array.prototype.slice(0, end) for end >= 0
Slice(s, end) == SubSeq(s, 1, Min(end, Len(s)))

\* matchesArray after the sort, then goodMatchesArray
GoodMatches(ms) == Slice(SortMatches(ms), SliceEnd(Len(ms)))

\* A faulty test that lets every list through.
EnoughMatchesMut(good) == Len(good) >= 0

\* goodMatchesArray.length >= 4
EnoughMatches(good) == Len(good) >= MinHomographyMatches

\* Match lists as the cross-checking matcher returns them: one match per query
\* descriptor at most, in query order, no train descriptor used twice.  The
\* distances follow the pattern (a*i + b) mod m, which gives unsorted lists
\* with ties.
GenMatches(n, a, b, m) ==
  [i \in 1..n |-> Match((a * i + b) % m, i - 1, n - i)]

MatchLists ==
  {GenMatches(n, a, b, m) :
     n \in 0..MaxMatches, a \in 0..MaxStride, b \in 0..1, m \in 1..(MaxDist + 1)}

InitSelect ==
  /\ selIn \in MatchLists
  /\ selOut = <<>>
  /\ selDone = FALSE

SelectApply ==
  /\ ~selDone
  /\ selOut' = GoodMatches(selIn)
  /\ selDone' = TRUE
  /\ UNCHANGED selIn

\* ------------------------------------------------- match visualisation
\* KeyPointVector.get(i): the keypoint at i, which the model names by its
\* index, or undefined (-1) outside the vector.
KpGet(size, i) == IF i \in 0..(size - 1) THEN i ELSE -1

\* A faulty colour choice that counts rank 10 among the best.
EmphasisMut(i) == IF i <= TopMatches THEN "top" ELSE "remainder"

\* Line 252: green for i < 10, yellow otherwise.
Emphasis(i) == IF i < TopMatches THEN "top" ELSE "remainder"

\* Lines 235-254: one line per good match of rank i < 30 whose two keypoints
\* exist, drawn in the order of i.
RECURSIVE LinesFrom(_, _, _, _)
LinesFrom(good, objKpSize, kpSize, i) ==
  IF i >= Min(Len(good), MaxDrawnMatches) THEN <<>>
  ELSE LET match == good[i + 1]
           objPt == KpGet(objKpSize, match.queryIdx)
           scenePt == KpGet(kpSize, match.trainIdx)
           rest == LinesFrom(good, objKpSize, kpSize, i + 1)
       IN IF objPt = -1 \/ scenePt = -1 THEN rest
          ELSE <<[rank |-> i, objPt |-> objPt, scenePt |-> scenePt,
                  emphasis |-> Emphasis(i)]>> \o rest

VisualizationPairs(good, objKpSize, kpSize) == LinesFrom(good, objKpSize, kpSize, 0)

\* Good match lists as the selection leaves them, sorted by distance, with
\* keypoint vectors that hold every index of the list.
InitVisualization ==
  /\ \E n \in 0..MaxGood, a \in 0..MaxStride :
       visGood = SortMatches(GenMatches(n, a, 1, MaxDist + 1))
  /\ visObjKp \in {Len(visGood), Len(visGood) + 1}
  /\ visKp = Len(visGood)
  /\ visPairs = <<>>
  /\ visDone = FALSE

VisualizationApply ==
  /\ ~visDone
  /\ visPairs' = VisualizationPairs(visGood, visObjKp, visKp)
  /\ visDone' = TRUE
  /\ UNCHANGED <<visGood, visObjKp, visKp>>

\* ------------------------------------------------- homography and corners
\* A float of a Mat, kept exact as numerator and denominator (> 0).
Num(n) == <<n, 1>>

\* A 3x3 transform in row order, as cv.findHomography returns it.
Homographies ==
  {<<2, 0, 1,  0, 2, 1,  0, 0, 1>>,    \* scale by 2, shift by (1, 1)
   <<1, 1, 0,  0, 1, 2,  1, 0, 1>>}    \* projective: w = x + 1

\* The image of the point (x, y) under H as cv.perspectiveTransform computes
\* it: (X/W, Y/W), and (0, 0) when W is 0.
Project(H, x, y) ==
  LET X == H[1] * x + H[2] * y + H[3]
      Y == H[4] * x + H[5] * y + H[6]
      W == H[7] * x + H[8] * y + H[9]
  IN IF W = 0 THEN <<Num(0), Num(0)>>
     ELSE IF W > 0 THEN <<(<<X, W>>), (<<Y, W>>)>>
     ELSE <<(<<-X, -W>>), (<<-Y, -W>>)>>

\* cv.perspectiveTransform(src, dst, H) on the data of an n x 1 two-channel
\* Mat: dst.data32F holds x0, y0, x1, y1, ...
PerspectiveTransform(data, H) ==
  [k \in 1..Len(data) |->
     LET i == (k + 1) \div 2
         p == Project(H, data[2 * i - 1], data[2 * i])
     IN IF k % 2 = 1 THEN p[1] ELSE p[2]]

\* A faulty corner list: the last two corners exchanged.
ObjCornersMut(cols, rows) == <<0, 0, cols, 0, 0, rows, cols, rows>>

\* Lines 167-172: the data of objCorners.
ObjCorners(cols, rows) == <<0, 0, cols, 0, cols, rows, 0, rows>>

\* Lines 179-186: corners read out of sceneCorners.data32F; an index past the
\* end of the array reads undefined and the corner is skipped.
RECURSIVE CornersFrom(_, _)
CornersFrom(data, i) ==
  IF i >= 4 THEN <<>>
  ELSE (IF 2 * i + 2 <= Len(data)
        THEN <<[x |-> data[2 * i + 1], y |-> data[2 * i + 2]]>>
        ELSE <<>>) \o CornersFrom(data, i + 1)

\* Lines 166-186 for a transform H.
SceneCorners(H) ==
  CornersFrom(PerspectiveTransform(ObjCorners(objectMat.cols, objectMat.rows), H), 0)

\* ------------------------------------------------------- session: setup
\* What the browser reports of the video element when a tick reads it.
VideoWidths == {0, 2, 3}
VideoHeights == {0, 2}
Videos == [w : VideoWidths, h : VideoHeights, paused : BOOLEAN, ended : BOOLEAN]
CanvasSizes == {[width |-> 2, height |-> 2], [width |-> 3, height |-> 2]}

\* Sizes of the reference image cv.imread(objectImg) returns.
RefSizes == {[cols |-> 3, rows |-> 2], [cols |-> 2, rows |-> 2]}

InitSession ==
  /\ phase = "idle"
  /\ hasMatchCanvas = FALSE
  /\ objDescRows = 0
  /\ objectMat = [cols |-> 0, rows |-> 0]
  /\ isRunning = FALSE
  /\ animationFrameId = NullId
  /\ rafQueue = {}
  /\ rafNext = 1
  /\ rafCancelled = {}
  /\ executing = 0
  /\ canvas = [width |-> 2, height |-> 2]
  /\ frame = NullFrame
  /\ live = [k \in Kinds |-> 0]
  /\ deleteCalls = [k \in SessionHandles |-> 0]
  /\ stopCalls = 0
  /\ stopThrew = FALSE
  /\ ticks = 0
  /\ last = NoTick

IdleSelect ==
  /\ selIn = <<>>
  /\ selOut = <<>>
  /\ selDone = TRUE

IdleVisualization ==
  /\ visGood = <<>>
  /\ visObjKp = 0
  /\ visKp = 0
  /\ visPairs = <<>>
  /\ visDone = TRUE

\* What a step of the page did: the handler, whether a video-feed frame drew
\* the video, whether a tick of a session ran, and the arguments of a call
\* of detectAndMatch (<<>> for no call).
PageDid(step) == [step |-> step, drew |-> FALSE, call |-> <<>>]

IdlePage ==
  /\ mounted = FALSE
  /\ camera = "failed"
  /\ video = [hasSize |-> FALSE, paused |-> TRUE]
  /\ isDetecting = FALSE
  /\ isCameraReady = FALSE
  /\ objectImage = FALSE
  /\ detectorControls = 0
  /\ videoFeedId = NullId
  /\ timers = 0
  /\ clicks = 0
  /\ sessions = <<>>
  /\ feedQueue = {}
  /\ feedNext = 1
  /\ pageLast = PageDid("none")

\* The native objects a call of detectFacesAndEyes creates, by the variable
\* that holds them.
FaceKinds == {"src", "gray", "small", "faces", "eyes", "faceROI"}

\* No call of detectFacesAndEyes: per variable the objects created and the
\* delete() calls that succeeded, whether a deleted object was passed to
\* OpenCV, whether the catch block ran, whether the frame was shown.
NoFaceCall ==
  [called |-> FALSE, faces |-> 0,
   created |-> [k \in FaceKinds |-> 0], deleted |-> [k \in FaceKinds |-> 0],
   usedDeleted |-> FALSE, caught |-> FALSE, shown |-> FALSE]

IdleHome ==
  /\ homeMounted = FALSE
  /\ isLoaded = FALSE
  /\ homeStream = FALSE
  /\ streamPending = 0
  /\ homeDetecting = FALSE
  /\ detectionLoopId = NullId
  /\ loopQueue = {}
  /\ loopNext = 1
  /\ faceLast = NoFaceCall

Init == InitSession /\ IdleSelect /\ IdleVisualization /\ IdlePage /\ IdleHome

\* A faulty setup that has the frame loop requested although it failed.
SetupFailureMut(h) == [phase |-> "failed", live |-> h, requests |-> 1]

\* detectAndMatch left by an exception: there is no try block in it, so the
\* exception reaches the caller, nothing created so far is deleted, and line
\* 335 is not reached.
SetupFailure(h) == [phase |-> "failed", live |-> h, requests |-> 0]

\* Lines 45-66 and 335.  cv.imread, cv.cvtColor, detectAndCompute or the
\* keypoint display (with an objectCanvas only) throws, or the setup completes
\* and the first tick is requested.  The mask `new cv.Mat()` given to
\* detectAndCompute is kept by no variable; the display clone is deleted.
SetupOutcomes(oc) ==
  LET h0 == live
      h1 == New(h0, {"objectMat", "objectGray"}, 1)
      h2 == New(h1, {"detector", "objKp", "objDesc", "setupMask"}, 1)
      h3 == New(h2, {"objectDisplay"}, 1)
  IN {SetupFailure(h0), SetupFailure(h1), SetupFailure(h2)}
     \cup (IF oc THEN {SetupFailure(h3)} ELSE {})
     \cup {[phase |-> "active", live |-> New(h2, {"matcher"}, 1), requests |-> 1]}

\* detectAndMatch(video, canvas, objectImg, objectCanvas?, matchCanvas?)
DetectAndMatch ==
  /\ phase = "idle"
  /\ \E oc \in BOOLEAN, mc \in BOOLEAN, n \in 0..MaxKp, cs \in CanvasSizes,
        rs \in RefSizes :
       \E su \in SetupOutcomes(oc) :
         LET ok == su.phase = "active" IN
         /\ phase' = su.phase
         /\ live' = su.live
         /\ objectMat' = IF ok THEN rs ELSE objectMat
         /\ hasMatchCanvas' = (ok /\ mc)
         /\ objDescRows' = IF ok THEN n ELSE objDescRows
         /\ canvas' = IF ok THEN cs ELSE canvas
         /\ isRunning' = ok
         /\ animationFrameId' = IF su.requests > 0 THEN rafNext + su.requests - 1
                                ELSE NullId
         /\ rafQueue' = rafQueue \cup (rafNext..(rafNext + su.requests - 1))
         /\ rafNext' = rafNext + su.requests
  /\ frame' = NullFrame
  /\ UNCHANGED <<rafCancelled, executing, deleteCalls, stopCalls, stopThrew, ticks,
                 last, asideVars>>

\* ------------------------------------------------- session: one tick
\* A tick's outcome: the heap, frame and canvas it leaves, and what it did.
Out(h, f, c, o) == [live |-> h, frame |-> f, canvas |-> c, obs |-> o]

\* An exception that no try block of process encloses leaves process at once:
\* nothing more is deleted and no next tick is requested.
Uncaught(h, f, c, o, fault) ==
  Out(h, f, c, [o EXCEPT !.path = fault, !.fault = fault, !.uncaught = TRUE,
                         !.result = "none", !.requests = 0])

\* Lines 319-331: show the frame, delete gray, kp, desc and matches, and
\* request the next tick if the session is still running.
TickEnd(h, f, c, o) ==
  Out(Del(h, {"gray", "kp", "desc", "matches"}), f, c,
      [o EXCEPT !.emitted = 1, !.requests = IF isRunning THEN 1 ELSE 0])

\* Lines 209-300, the match visualisation in its own try block.  Without a
\* matchCanvas nothing happens.  Otherwise either cv.resize throws after
\* objResized and frameResized were created (caught, neither is deleted), or
\* the block completes: objResized, frameResized and matchOutput are deleted,
\* the two Mats returned by matchOutput.roi are not.
VisualizationHeaps(h) ==
  IF ~hasMatchCanvas THEN {[live |-> h, fault |-> "none"]}
  ELSE {[live |-> New(h, {"objResized", "frameResized"}, 1), fault |-> "visualization"],
        [live |-> New(h, {"roi"}, 2), fault |-> "none"]}

\* Lines 165-305 and 311-312, entered with a non-empty homography H.
CornerStage(h, f, c, o, H) ==
  LET h1 == New(h, {"objCorners", "sceneCorners"}, 1)
      thrown == TickEnd(Del(h1, {"objPoints", "scenePoints"}), f, c,
                        [o EXCEPT !.path = "transformFailed",
                                  !.fault = "perspectiveTransform",
                                  !.result = "NotFound"])
      found == {TickEnd(Del(v.live, {"objCorners", "sceneCorners", "homography",
                                     "objPoints", "scenePoints"}), f, c,
                        [o EXCEPT !.path = "found", !.fault = v.fault,
                                  !.result = "Found",
                                  !.corners = SceneCorners(H)]) :
                v \in VisualizationHeaps(h1)}
  IN {thrown} \cup found

\* The entries of a list.
Range(q) == {q[i] : i \in 1..Len(q)}

\* A faulty lookup: the reference keypoint taken at the frame's index.
ObjLookupMut(m) == m.trainIdx

\* Lines 150, 238, 267: objKp.get(match.queryIdx)
ObjLookup(m) == m.queryIdx

\* Lines 151, 203, 239, 268: kp.get(match.trainIdx)
SceneLookup(m) == m.trainIdx

\* Lines 145-163 and 311-312: the point matrices and cv.findHomography, which
\* throws (caught at line 307), returns an empty Mat (never deleted) or
\* returns a transform.
HomographyStage(h, f, c, o) ==
  LET h1 == New(h, {"objPoints", "scenePoints"}, 1)
      o1 == [o EXCEPT !.hAttempted = TRUE,
                      !.objLookups = {ObjLookup(m) : m \in Range(o.good)},
                      !.sceneLookups = {SceneLookup(m) : m \in Range(o.good)}]
      thrown == TickEnd(Del(h1, {"objPoints", "scenePoints"}), f, c,
                        [o1 EXCEPT !.path = "homographyFailed",
                                   !.fault = "findHomography",
                                   !.result = "NotFound"])
      h2 == New(h1, {"homography"}, 1)
      empty == TickEnd(Del(h2, {"objPoints", "scenePoints"}), f, c,
                       [o1 EXCEPT !.path = "emptyHomography", !.result = "NotFound"])
  IN {thrown, empty} \cup
     UNION {CornerStage(h2, f, c, [o1 EXCEPT !.hNonEmpty = TRUE, !.homography = H], H) :
            H \in Homographies}

\* Lines 131-144 and 314-317: sort, slice, and the test for enough matches.
SelectStage(h, f, c, ms, o0) ==
  LET good == GoodMatches(ms)
      o == [o0 EXCEPT !.selected = TRUE, !.nMatches = Len(ms), !.good = good]
  IN IF EnoughMatches(good)
     THEN HomographyStage(h, f, c, o)
     ELSE {TickEnd(h, f, c, [o EXCEPT !.path = "fewMatches", !.result = "NotFound"])}

\* A list of n matches of a query set against a train set, as the matcher
\* fills it in: in query order, the last n indices of the query set against
\* the last n of the train set in reverse, each index used once, distances
\* unsorted with ties.
BFMatch(queryRows, trainRows, n) ==
  [i \in 1..n |-> Match((MaxStride * i + 1) % (MaxDist + 1),
                        queryRows - n + i - 1, trainRows - i)]

\* Line 129: matcher.match(objDesc, desc, matches), the reference as query and
\* the frame as train; with cross-check at most one match per reference
\* descriptor and per frame descriptor.
MatcherOutput(n, rows) == BFMatch(objDescRows, rows, n)

\* Lines 127-129.
MatchStage(h, f, c, rows) ==
  LET h1 == New(h, {"matches"}, 1)
      o == [NoTick EXCEPT !.detected = TRUE, !.descRows = rows,
                          !.matcherCalled = TRUE]
  IN {Uncaught(h1, f, c, o, "match")} \cup
     UNION {SelectStage(h1, f, c, MatcherOutput(n, rows), o) :
            n \in 0..Min(objDescRows, rows)}

\* A faulty test that looks at the frame's descriptors only.
EmptyDescriptorsMut(rows) == rows = 0

\* Line 116: desc.rows === 0 || objDesc.rows === 0
EmptyDescriptors(rows) == rows = 0 \/ objDescRows = 0

\* A faulty exit that deletes the reference descriptors for the frame's.
EmptyDescExitMut(h, f, c, rows) ==
  Out(Del(h, {"gray", "kp", "objDesc"}), f, c,
      [NoTick EXCEPT !.path = "emptyDescriptors", !.result = "NotFound",
                     !.detected = TRUE, !.descRows = rows, !.emitted = 1,
                     !.requests = 1])

\* Lines 115-125: no descriptors in the frame or in the reference.  The frame
\* is shown (line 122) and the next tick requested.
EmptyDescExit(h, f, c, rows) ==
  Out(Del(h, {"gray", "kp", "desc"}), f, c,
      [NoTick EXCEPT !.path = "emptyDescriptors", !.result = "NotFound",
                     !.detected = TRUE, !.descRows = rows, !.emitted = 1,
                     !.requests = 1])

\* Lines 110-125: kp, desc and the mask are created, then detectAndCompute
\* throws or leaves `rows` descriptors.
DetectStage(h, f, c) ==
  LET h1 == New(h, {"kp", "desc", "tickMask"}, 1)
  IN {Uncaught(h1, f, c, NoTick, "detectAndCompute")} \cup
     UNION {IF EmptyDescriptors(rows)
            THEN {EmptyDescExit(h1, f, c, rows)}
            ELSE MatchStage(h1, f, c, rows) : rows \in 0..MaxKp}

\* Lines 106-108.
GrayStage(h, f, c) ==
  LET h1 == New(h, {"gray"}, 1)
  IN {Uncaught(h1, f, c, NoTick, "cvtColor")} \cup DetectStage(h1, f, c)

\* A faulty buffer step that replaces the Mat without deleting the old one.
FrameBufferMut(f, c, h) ==
  IF f.isNull \/ f.rows # c.height \/ f.cols # c.width
  THEN [frame |-> Mat(c.height, c.width), live |-> New(h, {"frame"}, 1)]
  ELSE [frame |-> f, live |-> h]

\* Lines 89-93: a Mat of the canvas size is created when there is none or
\* the size differs; the one it replaces is deleted.
FrameBuffer(f, c, h) ==
  IF f.isNull \/ f.rows # c.height \/ f.cols # c.width
  THEN [frame |-> Mat(c.height, c.width),
        live |-> New(IF f.isNull THEN h ELSE Del(h, {"frame"}), {"frame"}, 1)]
  ELSE [frame |-> f, live |-> h]

\* A faulty catch block that returns without requesting the next tick.
CaptureFailExitMut(h, f, c) ==
  Out(h, f, c, [NoTick EXCEPT !.path = "captureFailed", !.fault = "capture",
                              !.requests = 0])

\* Lines 101-105: drawImage or imread threw.
CaptureFailExit(h, f, c) ==
  Out(h, f, c, [NoTick EXCEPT !.path = "captureFailed", !.fault = "capture",
                              !.requests = 1])

\* Lines 83-105: the canvas takes the video's size, the frame buffer is
\* (re)created, and `frame = cv.imread(canvas)` makes frame refer to a new
\* Mat of the canvas size.
CaptureStage(v) ==
  LET c == [width |-> v.w, height |-> v.h]
      b == FrameBuffer(frame, c, live)
  IN {CaptureFailExit(b.live, b.frame, c)} \cup
     GrayStage(New(b.live, {"frame"}, 1), Mat(c.height, c.width), c)

\* A faulty readiness test without the height.
NotReadyMut(v) == v.w = 0 \/ v.paused \/ v.ended

\* Line 78
NotReady(v) == v.w = 0 \/ v.h = 0 \/ v.paused \/ v.ended

\* The source frame has no area.
ZeroArea(v) == v.w = 0 \/ v.h = 0

\* A faulty early exit: the return of line 80 forgotten, so that the tick
\* goes on and requests the next tick a second time at line 330.
NotReadyExitMut ==
  Out(live, frame, canvas, [NoTick EXCEPT !.path = "notReady", !.requests = 2])

\* Lines 77-81
NotReadyExit ==
  Out(live, frame, canvas, [NoTick EXCEPT !.path = "notReady", !.requests = 1])

\* Every way the body of process can go, from after the running check.
ProcessOutcomes ==
  UNION {{[o EXCEPT !.obs.zeroArea = ZeroArea(v)] :
            o \in (IF NotReady(v) THEN {NotReadyExit} ELSE CaptureStage(v))} :
         v \in Videos}

\* The browser calls a queued callback.  Calls do not nest: JavaScript runs
\* each callback and each handler to completion.
ProcessEnter ==
  /\ executing = 0
  /\ ticks < MaxTicks
  /\ \E id \in rafQueue : rafQueue' = rafQueue \ {id}
  /\ executing' = 1
  /\ UNCHANGED <<phase, hasMatchCanvas, objDescRows, objectMat, isRunning,
                 animationFrameId, rafNext, rafCancelled, canvas, frame, live,
                 deleteCalls, stopCalls, stopThrew, ticks, last, asideVars>>

\* process(): the running check of line 75, then the body.  Each
\* requestAnimationFrame(process) queues a callback under a fresh id and
\* stores the id in animationFrameId.
ProcessRun ==
  /\ executing = 1
  /\ executing' = 0
  /\ IF ~isRunning
     THEN UNCHANGED <<animationFrameId, rafQueue, rafNext, canvas, frame, live,
                      ticks, last>>
     ELSE \E o \in ProcessOutcomes :
            /\ live' = o.live
            /\ frame' = o.frame
            /\ canvas' = o.canvas
            /\ last' = o.obs
            /\ rafQueue' = rafQueue \cup (rafNext..(rafNext + o.obs.requests - 1))
            /\ animationFrameId' = IF o.obs.requests > 0
                                   THEN rafNext + o.obs.requests - 1
                                   ELSE animationFrameId
            /\ rafNext' = rafNext + o.obs.requests
            /\ ticks' = ticks + 1
  /\ UNCHANGED <<phase, hasMatchCanvas, objDescRows, objectMat, isRunning,
                 rafCancelled, deleteCalls, stopCalls, stopThrew, asideVars>>

\* ------------------------------------------------------- session: stop
\* A faulty stop that only releases the resources and leaves the loop alone.
StopHaltMut ==
  [isRunning |-> isRunning, animationFrameId |-> animationFrameId,
   rafQueue |-> rafQueue]

\* A faulty stop that cancels the queued request but leaves the flag set.
StopHaltKeepsFlag ==
  [isRunning |-> isRunning,
   animationFrameId |-> NullId,
   rafQueue |-> IF animationFrameId # NullId THEN rafQueue \ {animationFrameId}
                ELSE rafQueue]

\* Lines 340-344: the flag, and the queued request cancelled.
StopHalt ==
  [isRunning |-> FALSE,
   animationFrameId |-> NullId,
   rafQueue |-> IF animationFrameId # NullId THEN rafQueue \ {animationFrameId}
                ELSE rafQueue]

\* Lines 346-352, in the order of the code.  delete() on an object that
\* was deleted before throws (a BindingError of the OpenCV.js binding), which
\* ends stop() there.
ReleaseOrder ==
  <<"frame", "objectMat", "objectGray", "objKp", "objDesc", "detector", "matcher">>

RECURSIVE ReleaseFrom(_, _)
ReleaseFrom(i, st) ==
  IF i > Len(ReleaseOrder) THEN st
  ELSE LET r == ReleaseOrder[i] IN
       IF r = "frame" /\ st.frame.isNull THEN ReleaseFrom(i + 1, st)
       ELSE LET gone == IF r = "frame" THEN st.frame.deleted ELSE st.calls[r] > 0
                st1 == [st EXCEPT !.calls[r] = @ + 1]
            IN IF gone THEN [st1 EXCEPT !.threw = TRUE]
               ELSE ReleaseFrom(i + 1,
                      [st1 EXCEPT !.live = Del(@, {r}),
                                  !.frame = IF r = "frame"
                                            THEN [@ EXCEPT !.deleted = TRUE]
                                            ELSE @])

\* stop()
Stop ==
  /\ phase = "active"
  /\ executing = 0
  /\ stopCalls < MaxStops
  /\ LET halt == StopHalt
         st == ReleaseFrom(1, [live |-> live, frame |-> frame, calls |-> deleteCalls,
                               threw |-> FALSE])
     IN /\ isRunning' = halt.isRunning
        /\ animationFrameId' = halt.animationFrameId
        /\ rafQueue' = halt.rafQueue
        /\ rafCancelled' = rafCancelled \cup (rafQueue \ halt.rafQueue)
        /\ live' = st.live
        /\ frame' = st.frame
        /\ deleteCalls' = st.calls
        /\ stopThrew' = (stopThrew \/ st.threw)
  /\ stopCalls' = stopCalls + 1
  /\ UNCHANGED <<phase, hasMatchCanvas, objDescRows, objectMat, rafNext,
                 executing, canvas, ticks, last, asideVars>>

\* ------------------------------------------------- the object-detector page
\* +object-detector.vue.  Each handler runs to completion.  A session is what
\* detectAndMatch returned: its isRunning flag and whether one of its ticks
\* is queued.
InitPage ==
  /\ mounted = TRUE
  /\ camera = "loading"
  /\ video = [hasSize |-> FALSE, paused |-> TRUE]
  /\ isDetecting = FALSE
  /\ isCameraReady = FALSE
  /\ objectImage = FALSE
  /\ detectorControls = 0
  /\ videoFeedId = NullId
  /\ timers = 0
  /\ clicks = 0
  /\ sessions = <<>>
  /\ feedQueue = {}
  /\ feedNext = 1
  /\ pageLast = PageDid("none")

\* Lines 254-259, drawFrame: nothing when the camera is not ready or a
\* detection goes on; canvas.value!.width throws once the refs are null;
\* otherwise the video is drawn and the next frame requested.
DrawFrameBody(ready, detecting, vfid, queue) ==
  IF ~ready \/ detecting \/ ~mounted
  THEN [videoFeedId |-> vfid, feedQueue |-> queue, feedNext |-> feedNext,
        drew |-> FALSE]
  ELSE [videoFeedId |-> feedNext, feedQueue |-> queue \cup {feedNext},
        feedNext |-> feedNext + 1, drew |-> TRUE]

\* Lines 250-261, showVideoFeed: a first drawFrame at once, unless the refs
\* are null.
ShowVideoFeed(ready, detecting, vfid, queue) ==
  DrawFrameBody(ready, detecting, vfid, queue)

\* detectorControls.stop() when detectorControls is set (lines 42-45 and
\* 271-274): the session's flag cleared and its queued tick cancelled.
StopControls(ss, c) ==
  IF c = 0 THEN ss ELSE [ss EXCEPT ![c] = [isRunning |-> FALSE, queued |-> FALSE]]

\* Lines 64-88: getUserMedia resolved, the stream and the handlers are set.
CameraGranted ==
  /\ mounted
  /\ camera = "loading"
  /\ camera' = "streaming"
  /\ pageLast' = PageDid("cameraGranted")
  /\ UNCHANGED <<mounted, video, isDetecting, isCameraReady, objectImage,
                 detectorControls, videoFeedId, timers, clicks, sessions,
                 feedQueue, feedNext>>
  /\ UNCHANGED offPageVars

\* Lines 90-109: getUserMedia rejected.
CameraDenied ==
  /\ camera = "loading"
  /\ camera' = "failed"
  /\ isCameraReady' = FALSE
  /\ pageLast' = PageDid("cameraDenied")
  /\ UNCHANGED <<mounted, video, isDetecting, objectImage, detectorControls,
                 videoFeedId, timers, clicks, sessions, feedQueue, feedNext>>
  /\ UNCHANGED offPageVars

\* Lines 284-286 and 58-64: the retry button, shown with the camera error.
RetryCamera ==
  /\ mounted
  /\ camera = "failed"
  /\ camera' = "loading"
  /\ pageLast' = PageDid("retryCamera")
  /\ UNCHANGED <<mounted, video, isDetecting, isCameraReady, objectImage,
                 detectorControls, videoFeedId, timers, clicks, sessions,
                 feedQueue, feedNext>>
  /\ UNCHANGED offPageVars

\* The video element changes: metadata loaded or lost, played or paused.
VideoEvent ==
  /\ mounted
  /\ camera = "streaming"
  /\ \E v \in [hasSize : BOOLEAN, paused : BOOLEAN] : v # video /\ video' = v
  /\ pageLast' = PageDid("videoEvent")
  /\ UNCHANGED <<mounted, camera, isDetecting, isCameraReady, objectImage,
                 detectorControls, videoFeedId, timers, clicks, sessions,
                 feedQueue, feedNext>>
  /\ UNCHANGED offPageVars

\* Lines 82-87, oncanplaythrough, which the browser fires each time the
\* element has buffered enough.
CanPlayThrough ==
  /\ mounted
  /\ camera = "streaming"
  /\ feedNext <= MaxFrames
  /\ isCameraReady' = TRUE
  /\ LET f == ShowVideoFeed(TRUE, isDetecting, videoFeedId, feedQueue)
     IN /\ videoFeedId' = f.videoFeedId
        /\ feedQueue' = f.feedQueue
        /\ feedNext' = f.feedNext
        /\ pageLast' = [PageDid("canPlayThrough") EXCEPT !.drew = f.drew]
  /\ UNCHANGED <<mounted, camera, video, isDetecting, objectImage,
                 detectorControls, timers, clicks, sessions>>
  /\ UNCHANGED offPageVars

\* Lines 117-131: a file was chosen and its image loaded.
FileLoaded ==
  /\ mounted
  /\ objectImage' = TRUE
  /\ pageLast' = PageDid("fileLoaded")
  /\ UNCHANGED <<mounted, camera, video, isDetecting, isCameraReady,
                 detectorControls, videoFeedId, timers, clicks, sessions,
                 feedQueue, feedNext>>
  /\ UNCHANGED offPageVars

\* Lines 117-123: the change event came without a file.
FileCleared ==
  /\ mounted
  /\ objectImage' = FALSE
  /\ pageLast' = PageDid("fileCleared")
  /\ UNCHANGED <<mounted, camera, video, isDetecting, isCameraReady,
                 detectorControls, videoFeedId, timers, clicks, sessions,
                 feedQueue, feedNext>>
  /\ UNCHANGED offPageVars

\* Lines 191-212 and 423-426: a click on the start button, which is enabled
\* unless isDetecting || !isCameraReady || !objectImage.  A paused video is
\* played and nothing else; otherwise the delayed start is set.
StartDetection ==
  /\ mounted
  /\ ~isDetecting /\ isCameraReady /\ objectImage
  /\ clicks < MaxClicks
  /\ clicks' = clicks + 1
  /\ timers' = IF video.paused THEN timers ELSE timers + 1
  /\ pageLast' = PageDid("startDetection")
  /\ UNCHANGED <<mounted, camera, video, isDetecting, isCameraReady,
                 objectImage, detectorControls, videoFeedId, sessions,
                 feedQueue, feedNext>>
  /\ UNCHANGED offPageVars

\* The ways detectAndMatch(video, canvas, objectImage, ...) can end: with a
\* null image cv.imread throws; otherwise the setup throws or a session is
\* returned with its first tick queued.
DetectAndMatchResults ==
  IF ~objectImage THEN {"threw"} ELSE {"threw", "session"}

\* Lines 212-243, the callback of setTimeout.
DelayedStart ==
  /\ timers > 0
  /\ timers' = timers - 1
  /\ IF ~mounted \/ ~video.hasSize
     THEN /\ pageLast' = PageDid("delayedStart")
          /\ UNCHANGED <<isDetecting, detectorControls, videoFeedId, sessions,
                         feedQueue>>
     ELSE /\ feedQueue' = feedQueue \ {videoFeedId}
          /\ videoFeedId' = NullId
          /\ isDetecting' = TRUE
          /\ pageLast' = [PageDid("delayedStart") EXCEPT
                            !.call = <<[image |-> objectImage,
                                        ready |-> isCameraReady,
                                        hasSize |-> video.hasSize]>>]
          /\ \E r \in DetectAndMatchResults :
               IF r = "session"
               THEN /\ sessions' = Append(sessions, [isRunning |-> TRUE,
                                                     queued |-> TRUE])
                    /\ detectorControls' = Len(sessions) + 1
               ELSE UNCHANGED <<sessions, detectorControls>>
  /\ UNCHANGED <<mounted, camera, video, isCameraReady, objectImage, clicks,
                 feedNext>>
  /\ UNCHANGED offPageVars

\* Lines 267-278: a click on the stop button, which exists while isDetecting.
StopDetection ==
  /\ mounted
  /\ isDetecting
  /\ feedNext <= MaxFrames
  /\ isDetecting' = FALSE
  /\ sessions' = StopControls(sessions, detectorControls)
  /\ detectorControls' = 0
  /\ LET f == ShowVideoFeed(isCameraReady, FALSE, videoFeedId, feedQueue)
     IN /\ videoFeedId' = f.videoFeedId
        /\ feedQueue' = f.feedQueue
        /\ feedNext' = f.feedNext
        /\ pageLast' = [PageDid("stopDetection") EXCEPT !.drew = f.drew]
  /\ UNCHANGED <<mounted, camera, video, isCameraReady, objectImage, timers,
                 clicks>>
  /\ UNCHANGED offPageVars

\* The browser runs a queued drawFrame callback.
DrawFrame ==
  /\ feedNext <= MaxFrames
  /\ \E id \in feedQueue :
       LET f == DrawFrameBody(isCameraReady, isDetecting, videoFeedId,
                              feedQueue \ {id})
       IN /\ videoFeedId' = f.videoFeedId
          /\ feedQueue' = f.feedQueue
          /\ feedNext' = f.feedNext
          /\ pageLast' = [PageDid("drawFrame") EXCEPT !.drew = f.drew]
  /\ UNCHANGED <<mounted, camera, video, isDetecting, isCameraReady,
                 objectImage, detectorControls, timers, clicks, sessions>>
  /\ UNCHANGED offPageVars

\* The browser runs the queued tick of a session: it requests the next one,
\* or an exception leaves process and the session ticks no more.
SessionTick ==
  /\ \E i \in 1..Len(sessions) :
       /\ sessions[i].queued
       /\ \E again \in BOOLEAN : sessions' = [sessions EXCEPT ![i].queued = again]
  /\ pageLast' = PageDid("sessionTick")
  /\ UNCHANGED <<mounted, camera, video, isDetecting, isCameraReady,
                 objectImage, detectorControls, videoFeedId, timers, clicks,
                 feedQueue, feedNext>>
  /\ UNCHANGED offPageVars

\* Lines 28-51: the component is unmounted, its refs become null and
\* cleanup() runs.
Unmount ==
  /\ mounted
  /\ mounted' = FALSE
  /\ sessions' = StopControls(sessions, detectorControls)
  /\ detectorControls' = 0
  /\ feedQueue' = feedQueue \ {videoFeedId}
  /\ videoFeedId' = NullId
  /\ pageLast' = PageDid("unmount")
  /\ UNCHANGED <<camera, video, isDetecting, isCameraReady, objectImage,
                 timers, clicks, feedNext>>
  /\ UNCHANGED offPageVars

NextPage ==
  \/ CameraGranted \/ CameraDenied \/ RetryCamera \/ VideoEvent
  \/ CanPlayThrough \/ FileLoaded \/ FileCleared \/ StartDetection
  \/ DelayedStart \/ StopDetection \/ DrawFrame \/ SessionTick \/ Unmount

\* ------------------------------------------------- the home page
\* +home.vue.  Lines 93-117, the loop over the faces from face i on: the
\* face's region of the gray image is created, the eyes are detected in it
\* into `eyes`, and `eyes` and the region are deleted.  Passing a deleted
\* `eyes` to detectMultiScale throws (the binding refuses a deleted object),
\* which ends the try block.
RECURSIVE FaceLoop(_, _, _, _)
FaceLoop(r, i, n, fault) ==
  IF i >= n THEN r
  ELSE LET r1 == [r EXCEPT !.created["faceROI"] = @ + 1]
       IN IF r1.deleted["eyes"] > 0
          THEN [r1 EXCEPT !.usedDeleted = TRUE, !.caught = TRUE]
          ELSE IF fault = "eyeDetect"
          THEN [r1 EXCEPT !.caught = TRUE]
          ELSE FaceLoop([r1 EXCEPT !.deleted["eyes"] = @ + 1,
                                   !.deleted["faceROI"] = @ + 1],
                        i + 1, n, fault)

\* The calls of detectFacesAndEyes that can throw for a reason of their own.
FaceFaults == {"none", "imread", "cvtColor", "resize", "faceDetect", "eyeDetect"}

\* Lines 48-127, detectFacesAndEyes, for a video that is ready or not, n
\* faces found and the call that throws.  The deletes of lines 119-122 are
\* reached only when nothing threw.
DetectFacesAndEyes(ready, n, fault) ==
  LET r0 == [NoFaceCall EXCEPT !.called = TRUE]
      r1 == [r0 EXCEPT !.created["src"] = 1, !.created["gray"] = 1]
      r2 == [r1 EXCEPT !.created["small"] = 1]
      r3 == [r2 EXCEPT !.created["faces"] = 1, !.created["eyes"] = 1]
      r4 == FaceLoop([r3 EXCEPT !.faces = n], 0, n, fault)
  IN IF ~ready THEN r0
     ELSE IF fault = "imread" THEN [r0 EXCEPT !.caught = TRUE]
     ELSE IF fault = "cvtColor" THEN [r1 EXCEPT !.caught = TRUE]
     ELSE IF fault = "resize" THEN [r2 EXCEPT !.caught = TRUE]
     ELSE IF fault = "faceDetect" THEN [r3 EXCEPT !.caught = TRUE]
     ELSE IF r4.caught THEN r4
     ELSE [r4 EXCEPT !.shown = TRUE,
                     !.deleted["src"] = 1, !.deleted["gray"] = 1,
                     !.deleted["small"] = 1, !.deleted["faces"] = 1]

\* Every way one call of detectFacesAndEyes can go.
FaceCalls ==
  {DetectFacesAndEyes(ready, n, fault) :
     ready \in BOOLEAN, n \in 0..MaxFaces, fault \in FaceFaults}

InitHome ==
  /\ homeMounted = TRUE
  /\ isLoaded = FALSE
  /\ homeStream = FALSE
  /\ streamPending = 0
  /\ homeDetecting = FALSE
  /\ detectionLoopId = NullId
  /\ loopQueue = {}
  /\ loopNext = 1
  /\ faceLast = NoFaceCall

\* A faulty halt that clears the flag and forgets the queued callback.
HomeHaltMut ==
  [homeDetecting |-> FALSE, detectionLoopId |-> detectionLoopId,
   loopQueue |-> loopQueue]

\* Lines 32-36 and 141-145: the flag cleared and the queued callback
\* cancelled.
HomeHalt ==
  [homeDetecting |-> FALSE, detectionLoopId |-> NullId,
   loopQueue |-> IF detectionLoopId # NullId
                 THEN loopQueue \ {detectionLoopId} ELSE loopQueue]

\* Lines 165-186, initializeApp: OpenCV and both cascades were loaded.
InitializeApp ==
  /\ homeMounted
  /\ ~isLoaded
  /\ isLoaded' = TRUE
  /\ faceLast' = NoFaceCall
  /\ UNCHANGED <<homeMounted, homeStream, streamPending, homeDetecting,
                 detectionLoopId, loopQueue, loopNext>>
  /\ UNCHANGED offHomeVars

\* Lines 39-46 with 27-37 and 15-16: a click on the webcam button, enabled
\* once isLoaded: stopWebcam with a stream, startWebcam without.
ToggleWebcam ==
  /\ homeMounted
  /\ isLoaded
  /\ IF homeStream
     THEN /\ homeStream' = FALSE
          /\ homeDetecting' = HomeHalt.homeDetecting
          /\ detectionLoopId' = HomeHalt.detectionLoopId
          /\ loopQueue' = HomeHalt.loopQueue
          /\ UNCHANGED streamPending
     ELSE /\ streamPending < MaxPending
          /\ streamPending' = streamPending + 1
          /\ UNCHANGED <<homeStream, homeDetecting, detectionLoopId, loopQueue>>
  /\ faceLast' = NoFaceCall
  /\ UNCHANGED <<homeMounted, isLoaded, loopNext>>
  /\ UNCHANGED offHomeVars

\* Lines 17-20: getUserMedia resolved.
WebcamGranted ==
  /\ streamPending > 0
  /\ streamPending' = streamPending - 1
  /\ homeStream' = TRUE
  /\ faceLast' = NoFaceCall
  /\ UNCHANGED <<homeMounted, isLoaded, homeDetecting, detectionLoopId,
                 loopQueue, loopNext>>
  /\ UNCHANGED offHomeVars

\* Lines 22-24: getUserMedia rejected.
WebcamDenied ==
  /\ streamPending > 0
  /\ streamPending' = streamPending - 1
  /\ faceLast' = NoFaceCall
  /\ UNCHANGED <<homeMounted, isLoaded, homeStream, homeDetecting,
                 detectionLoopId, loopQueue, loopNext>>
  /\ UNCHANGED offHomeVars

\* Lines 129-147 and 204-207: a click on the detection button, enabled
\* with isLoaded and a stream.  Turning on runs loop() at once: one call of
\* detectFacesAndEyes and the request of the next frame.
ToggleDetection ==
  /\ homeMounted
  /\ isLoaded /\ homeStream
  /\ IF ~homeDetecting
     THEN /\ loopNext <= MaxLoopFrames
          /\ homeDetecting' = TRUE
          /\ faceLast' \in FaceCalls
          /\ detectionLoopId' = loopNext
          /\ loopQueue' = loopQueue \cup {loopNext}
          /\ loopNext' = loopNext + 1
     ELSE /\ homeDetecting' = HomeHalt.homeDetecting
          /\ detectionLoopId' = HomeHalt.detectionLoopId
          /\ loopQueue' = HomeHalt.loopQueue
          /\ faceLast' = NoFaceCall
          /\ UNCHANGED loopNext
  /\ UNCHANGED <<homeMounted, isLoaded, homeStream, streamPending>>
  /\ UNCHANGED offHomeVars

\* Lines 132-137: the browser runs a queued loop callback.
LoopFrame ==
  /\ loopNext <= MaxLoopFrames
  /\ \E id \in loopQueue :
       IF homeDetecting
       THEN /\ faceLast' \in FaceCalls
            /\ detectionLoopId' = loopNext
            /\ loopQueue' = (loopQueue \ {id}) \cup {loopNext}
            /\ loopNext' = loopNext + 1
       ELSE /\ faceLast' = NoFaceCall
            /\ loopQueue' = loopQueue \ {id}
            /\ UNCHANGED <<detectionLoopId, loopNext>>
  /\ UNCHANGED <<homeMounted, isLoaded, homeStream, streamPending,
                 homeDetecting>>
  /\ UNCHANGED offHomeVars

\* Lines 192-194 with 27-37: onBeforeUnmount calls stopWebcam.
HomeUnmount ==
  /\ homeMounted
  /\ homeMounted' = FALSE
  /\ homeStream' = FALSE
  /\ homeDetecting' = HomeHalt.homeDetecting
  /\ detectionLoopId' = HomeHalt.detectionLoopId
  /\ loopQueue' = HomeHalt.loopQueue
  /\ faceLast' = NoFaceCall
  /\ UNCHANGED <<isLoaded, streamPending, loopNext>>
  /\ UNCHANGED offHomeVars

NextHome ==
  \/ InitializeApp \/ ToggleWebcam \/ WebcamGranted \/ WebcamDenied
  \/ ToggleDetection \/ LoopFrame \/ HomeUnmount

\* ------------------------------------------------------- specifications
Next == DetectAndMatch \/ ProcessEnter \/ ProcessRun \/ Stop

Spec == Init /\ [][Next]_vars

\* The selection applied alone to generated match lists; the session stays idle.
InitSelection ==
  InitSession /\ InitSelect /\ IdleVisualization /\ IdlePage /\ IdleHome

NextSelection ==
  SelectApply /\ UNCHANGED <<sessionVars, visVars, pageVars, homeVars>>

SpecSelection == InitSelection /\ [][NextSelection]_vars

\* The match visualisation applied alone to generated good match lists.
InitVis ==
  InitSession /\ IdleSelect /\ InitVisualization /\ IdlePage /\ IdleHome

NextVis ==
  VisualizationApply /\ UNCHANGED <<sessionVars, selVars, pageVars, homeVars>>

SpecVisualization == InitVis /\ [][NextVis]_vars

\* The page alone; a session is its flag and its queued tick.
InitPageSpec ==
  InitSession /\ IdleSelect /\ IdleVisualization /\ InitPage /\ IdleHome

SpecPage == InitPageSpec /\ [][NextPage]_vars

\* The home page alone.
InitHomeSpec ==
  InitSession /\ IdleSelect /\ IdleVisualization /\ IdlePage /\ InitHome

SpecHome == InitHomeSpec /\ [][NextHome]_vars

\* ------------------------------------------------------------- properties
\* C1: once stop() has been called, no body of process (the part after the
\* running check) runs again, and every stop() leaves the running flag false
\* and no callback queued.
C1_NoTickAfterStop ==
  [][/\ (stopCalls > 0 => ticks' = ticks)
     /\ (stopCalls' > stopCalls =>
           ~isRunning' /\ rafQueue' = {} /\ animationFrameId' = NullId)]_vars

\* stop() was called after a tick ran and cancelled the tick that was queued.
C1_Witness == stopCalls > 0 /\ ticks > 0 /\ rafCancelled # {}

\* C2: stop() is idempotent: a second and later call raises no error and
\* deletes no session resource again.
C2_StopIdempotent ==
  stopCalls >= 2 =>
    /\ ~stopThrew
    /\ \A r \in SessionHandles : deleteCalls[r] <= 1

\* C3: a tick in which grayscale conversion, descriptor extraction, matching
\* or homography estimation throws catches the exception, counts as NotFound
\* and leaves the next tick requested.
C3_BadFrameNeverHalts ==
  (/\ executing = 0
   /\ isRunning
   /\ last.fault \in {"cvtColor", "detectAndCompute", "match", "findHomography"})
  => (/\ ~last.uncaught
      /\ last.result = "NotFound"
      /\ rafQueue # {})

\* C4: after stop() no native object of the session is live.
C4_AllReleasedAfterStop ==
  stopCalls > 0 => \A k \in Kinds : live[k] = 0

\* C5: at most one tick is queued or executing at any time.
C5_SingleTickInFlight == Cardinality(rafQueue) + executing <= 1

\* A tick executes after an earlier tick has run and requested it.
C5_Witness == executing = 1 /\ ticks >= 1 /\ rafQueue = {} /\ last.requests = 1

\* C6: the session holds at most one live frame buffer at any time.
C6_OneFrameBuffer == live["frame"] <= 1

\* C7: when a tick has returned, every object it created has been deleted.
C7_TickTransientsReleased ==
  executing = 0 => \A k \in TickTransients : live[k] = 0

\* The place in the input list of an entry of the output list.
PlaceIn(m, ms) == CHOOSE j \in 1..Len(ms) : ms[j] = m

\* C8: the good-match list of a match list of length n has length
\* max(floor(n/2), min(n, 10)), its entries are entries of the input, each
\* taken once, and no entry left out has a smaller distance than one taken.
C8_SelectLengthAndBest ==
  selDone =>
    LET n == Len(selIn)
        taken == {selOut[i] : i \in 1..Len(selOut)}
    IN /\ Len(selOut) = Max(n \div 2, Min(n, 10))
       /\ Cardinality(taken) = Len(selOut)
       /\ \A m \in taken : \E j \in 1..n : selIn[j] = m
       /\ \A m \in taken : \A j \in 1..n :
            selIn[j] \notin taken => m.distance <= selIn[j].distance

\* The three regimes of the length: all of a short list, the floor of 10,
\* and half of a long list.
C8_Witness ==
  /\ selDone
  /\ Len(selIn) = 22
  /\ Len(selOut) = 11
  /\ \E j \in 1..Len(selIn) : selIn[j].distance > selOut[Len(selOut)].distance

\* C9: the good-match list is ascending by distance, and entries of equal
\* distance keep the order they had in the matcher's output.
C9_SortedAndStable ==
  selDone =>
    \A i \in 1..Len(selOut) : \A j \in 1..Len(selOut) :
      i < j =>
        \/ selOut[i].distance < selOut[j].distance
        \/ /\ selOut[i].distance = selOut[j].distance
           /\ PlaceIn(selOut[i], selIn) < PlaceIn(selOut[j], selIn)

\* An unsorted input whose output holds two entries of equal distance.
C9_Witness ==
  /\ selDone
  /\ \E j \in 1..(Len(selIn) - 1) : selIn[j].distance > selIn[j + 1].distance
  /\ \E i \in 1..(Len(selOut) - 1) : selOut[i].distance = selOut[i + 1].distance

\* C10: findHomography is called only with at least 4 good matches; a tick
\* whose good-match list is shorter ends NotFound without an exception.
C10_NoHomographyBelowFour ==
  /\ last.hAttempted => Len(last.good) >= 4
  /\ (last.selected /\ Len(last.good) < 4) =>
       (/\ ~last.hAttempted
        /\ last.result = "NotFound"
        /\ last.fault = "none"
        /\ ~last.uncaught)

\* A tick that selected between one and three good matches.
C10_Witness ==
  /\ last.selected
  /\ Len(last.good) \in 1..3
  /\ last.result = "NotFound"

\* Two exact floats are equal.
SameNum(a, b) == a[1] * b[2] = b[1] * a[2]

\* The image of (x, y) under the transform H, as a point of exact floats.
ImageOf(H, x, y) ==
  LET p == Project(H, x, y) IN [x |-> p[1], y |-> p[2]]

\* The four images of the reference corners, in the order of the claim.
FourCorners(o) ==
  /\ Len(o.corners) = 4
  /\ LET w == objectMat.cols
         hh == objectMat.rows
         want == <<ImageOf(o.homography, 0, 0), ImageOf(o.homography, w, 0),
                   ImageOf(o.homography, w, hh), ImageOf(o.homography, 0, hh)>>
     IN \A i \in 1..4 : /\ SameNum(o.corners[i].x, want[i].x)
                        /\ SameNum(o.corners[i].y, want[i].y)

\* C11 as stated: a tick that selected good matches is Found exactly when it
\* has at least 4 of them and findHomography returned a non-empty transform,
\* otherwise NotFound; a Found tick has the four corner images.
C11_FoundIffHomography ==
  last.selected =>
    /\ last.result \in {"Found", "NotFound"}
    /\ (last.result = "Found") <=> (Len(last.good) >= 4 /\ last.hNonEmpty)
    /\ last.result = "Found" => FourCorners(last)

\* C11 amended: Found exactly when there are at least 4 good matches,
\* findHomography returned a non-empty transform and perspectiveTransform did
\* not throw; otherwise NotFound; a Found tick has the four corner images.
C11_FoundIffTransformed ==
  last.selected =>
    /\ last.result \in {"Found", "NotFound"}
    /\ (last.result = "Found") <=>
         (/\ Len(last.good) >= 4
          /\ last.hNonEmpty
          /\ last.fault # "perspectiveTransform")
    /\ last.result = "Found" => FourCorners(last)

\* A Found tick for a reference image that is not square, under the
\* projective transform.
C11_Witness ==
  /\ last.result = "Found"
  /\ objectMat.cols # objectMat.rows
  /\ last.homography[7] # 0
  /\ Len(last.corners) = 4

\* C12 as stated: with a reference of zero descriptors, every tick that
\* captured a frame ends NotFound, throws nothing and leaves the next tick
\* requested.
C12_BlankReferenceNotFound ==
  (/\ phase = "active"
   /\ objDescRows = 0
   /\ last.path \notin {"none", "notReady", "captureFailed"})
  => (/\ last.result = "NotFound"
      /\ ~last.uncaught
      /\ last.requests = 1)

\* The rank of the session in its lifecycle.
Lifecycle ==
  IF stopCalls > 0 THEN 3
  ELSE IF phase = "active" THEN 2
  ELSE IF phase = "failed" THEN 1
  ELSE 0

\* C13: the lifecycle never goes back; a tick is requested only when the
\* reference keypoints and descriptors exist; once stop() has been called
\* the running flag stays false and no tick is requested.
C13_LifecycleMonotone ==
  [][/\ Lifecycle' >= Lifecycle
     /\ (rafNext' > rafNext =>
           /\ phase' = "active"
           /\ live'["objKp"] = 1
           /\ live'["objDesc"] = 1)
     /\ ((stopCalls > 0 \/ stopCalls' > 0) =>
           /\ ~isRunning'
           /\ rafNext' = rafNext
           /\ rafQueue' = {})]_vars

\* A session that ran a tick, was stopped, and was stopped again.
C13_Witness == stopCalls >= 2 /\ ticks >= 1 /\ ~isRunning

\* C14 as stated: every tick that runs while the session is running and whose
\* source has non-zero width and height emits exactly one result, Found or
\* NotFound.
C14_OneResultPerNonZeroTick ==
  (last.path # "none" /\ ~last.zeroArea) =>
    (last.emitted = 1 /\ last.result \in {"Found", "NotFound"})

\* The handles of the reference data computed at setup.
ReferenceHandles == {"objectMat", "objectGray", "objKp", "objDesc"}

\* C15: no tick changes the reference data: its sizes stay, none of its
\* objects is released or created again, and no delete() is called on it.
C15_ReferenceUnchangedByTick ==
  [][(executing = 1 /\ executing' = 0) =>
       /\ objDescRows' = objDescRows
       /\ objectMat' = objectMat
       /\ \A k \in ReferenceHandles : live'[k] = live[k]
       /\ deleteCalls' = deleteCalls]_vars

\* Two ticks have run, one of each kind of exit that deletes descriptors,
\* and the reference is still there.
C15_Witness ==
  /\ ticks >= 2
  /\ last.path \in {"found", "emptyDescriptors"}
  /\ stopCalls = 0
  /\ \A k \in ReferenceHandles : live[k] = 1

\* C16: when detectAndMatch fails, the caller gets the exception and no tick
\* of that session is ever requested or run.
C16_NoTickAfterFailedSetup ==
  phase = "failed" =>
    /\ rafQueue = {}
    /\ rafNext = 1
    /\ animationFrameId = NullId
    /\ executing = 0
    /\ ticks = 0
    /\ stopCalls = 0

\* The setup failed after the reference image had been read.
C16_Witness == phase = "failed" /\ live["objectMat"] = 1 /\ live["objDesc"] = 1

\* C18: a tick whose source has zero width or zero height allocates and
\* releases nothing, emits no result, raises no error, leaves the frame
\* buffer, the canvas, the reference data and the running flag as they were,
\* and requests exactly the next tick.
C18_ZeroAreaTickSkipped ==
  [][(executing = 1 /\ executing' = 0 /\ isRunning /\ last'.zeroArea) =>
       /\ live' = live
       /\ frame' = frame
       /\ canvas' = canvas
       /\ objDescRows' = objDescRows
       /\ objectMat' = objectMat
       /\ isRunning' = isRunning
       /\ last'.emitted = 0
       /\ last'.result = "none"
       /\ last'.fault = "none"
       /\ ~last'.uncaught
       /\ last'.requests = 1
       /\ rafQueue' = rafQueue \cup {rafNext}
       /\ animationFrameId' = rafNext]_vars

\* A zero-area tick came after a tick that had created the frame buffer.
C18_Witness ==
  /\ last.zeroArea
  /\ last.path = "notReady"
  /\ ticks >= 2
  /\ ~frame.isNull
  /\ isRunning

\* C19: a tick that computed the frame's descriptors and finds them or the
\* reference's descriptors empty does not call the matcher, ends NotFound
\* and requests the next tick.
C19_EmptyDescriptorsNotFound ==
  (last.detected /\ (last.descRows = 0 \/ objDescRows = 0)) =>
    /\ ~last.matcherCalled
    /\ last.result = "NotFound"
    /\ last.emitted = 1
    /\ ~last.uncaught
    /\ last.requests = 1

\* The frame has descriptors and the reference has none.
C19_Witness ==
  /\ last.detected
  /\ last.descRows > 0
  /\ objDescRows = 0
  /\ last.result = "NotFound"

\* C20: the query index of every match a tick uses is an index of the
\* reference keypoints and its train index an index of the frame's
\* keypoints, and the keypoint lookups take the reference keypoint at the
\* query index and the frame keypoint at the train index.
C20_IndexRoles ==
  last.selected =>
    /\ \A m \in Range(last.good) :
         /\ m.queryIdx \in 0..(objDescRows - 1)
         /\ m.trainIdx \in 0..(last.descRows - 1)
    /\ last.objLookups \subseteq 0..(objDescRows - 1)
    /\ last.sceneLookups \subseteq 0..(last.descRows - 1)
    /\ last.hAttempted =>
         /\ last.objLookups = {m.queryIdx : m \in Range(last.good)}
         /\ last.sceneLookups = {m.trainIdx : m \in Range(last.good)}
    /\ ~last.hAttempted => (last.objLookups = {} /\ last.sceneLookups = {})

\* A Found tick whose frame has more keypoints than the reference, with the
\* last frame keypoint looked up.
C20_Witness ==
  /\ last.path = "found"
  /\ last.descRows > objDescRows
  /\ Len(last.good) >= MinHomographyMatches
  /\ (last.descRows - 1) \in last.sceneLookups

C23_ReturningTickSchedulesNext ==
  /\ (last.path # "none" /\ ~last.uncaught) => last.requests = 1
  /\ (phase = "active" /\ isRunning /\ ~last.uncaught) =>
       Cardinality(rafQueue) + executing = 1

\* Two ticks returned, the second through the capture error exit, and the
\* third is queued.
C23_Witness ==
  /\ ticks >= 2
  /\ last.path = "captureFailed"
  /\ isRunning
  /\ Cardinality(rafQueue) = 1

\* A tick ran its body and left through the catch block of lines 101-105.
CaptureFailedStep ==
  executing = 1 /\ executing' = 0 /\ isRunning /\ last'.path = "captureFailed"

\* What a tick whose capture fails does apart from the frame buffer: no
\* result, no exception, the reference data as it was, the next tick
\* requested.
CaptureFailureAbsorbed ==
  /\ last'.emitted = 0
  /\ last'.result = "none"
  /\ ~last'.uncaught
  /\ last'.requests = 1
  /\ rafQueue' = rafQueue \cup {rafNext}
  /\ objDescRows' = objDescRows
  /\ objectMat' = objectMat
  /\ \A k \in ReferenceHandles : live'[k] = live[k]

\* C24 as stated: a tick whose capture fails is absorbed and leaves the
\* frame buffer as it was.
C24_CaptureFailureLeavesBuffer ==
  [][CaptureFailedStep => (CaptureFailureAbsorbed /\ frame' = frame)]_vars

\* C24 amended: a tick whose capture fails is absorbed; the frame buffer is
\* as it was when it already had the video's size, and otherwise is the new
\* Mat of the video's size made before the capture, the old one deleted.
C24_CaptureFailureKeepsSizedBuffer ==
  [][CaptureFailedStep =>
       /\ CaptureFailureAbsorbed
       /\ IF ~frame.isNull /\ frame.rows = canvas'.height
                           /\ frame.cols = canvas'.width
          THEN frame' = frame /\ live' = live
          ELSE /\ frame' = Mat(canvas'.height, canvas'.width)
               /\ live'["frame"] = IF frame.isNull THEN live["frame"] + 1
                                   ELSE live["frame"]]_vars

\* A capture failed in a tick that found the frame buffer of an earlier tick
\* at the video's size.
C24_Witness ==
  /\ ticks >= 2
  /\ last.path = "captureFailed"
  /\ ~frame.isNull
  /\ frame.rows = canvas.height
  /\ frame.cols = canvas.width
  /\ live["frame"] >= 1

Unstopped == {i \in 1..Len(sessions) : sessions[i].isRunning}

\* C25 as stated: at most one unstopped session exists at any time, and every
\* running session is the one detectorControls holds.
C25_OneSessionHeld ==
  /\ Cardinality(Unstopped) <= 1
  /\ \A i \in Unstopped : detectorControls = i

\* C26 as stated: detectAndMatch is only ever called with a reference image
\* that is not null, a ready camera and a video of non-zero size.
C26_StartPreconditionsHold ==
  \A k \in 1..Len(pageLast.call) :
    /\ pageLast.call[k].image
    /\ pageLast.call[k].ready
    /\ pageLast.call[k].hasSize

\* C27 as stated: between handlers, isDetecting is true only while
\* detectorControls holds a session that was not stopped.
C27_DetectingMeansSession ==
  isDetecting => (detectorControls # 0 /\ detectorControls \in Unstopped)

\* C28 as stated: no video-feed frame draws the video onto the canvas while
\* some detection session is still running.
C28_FeedNeverDrawsWhileDetecting ==
  pageLast.drew => Unstopped = {}

\* C29 as stated: once the page is unmounted and cleanup() has run, no
\* detection tick and no video-feed frame executes and no delayed start
\* starts a session.
C29_NothingRunsAfterUnmount ==
  ~mounted =>
    /\ pageLast.step \notin {"sessionTick", "drawFrame"}
    /\ pageLast.call = <<>>

\* C30 as stated: at most one drawFrame callback is queued at any time, and
\* videoFeedId is its id.
C30_OneFeedLoop ==
  /\ Cardinality(feedQueue) <= 1
  /\ \A id \in feedQueue : videoFeedId = id

\* C31 as stated: whatever the number of faces, every native object a call
\* of detectFacesAndEyes created was deleted exactly once when the call
\* returns, and none was used after it was deleted.
C31_FaceObjectsReleasedOnce ==
  faceLast.called =>
    /\ \A k \in FaceKinds : faceLast.deleted[k] = faceLast.created[k]
    /\ ~faceLast.usedDeleted

\* A detection step stopped: the stream was dropped, the detection was
\* turned off or the page was unmounted.
HomeStopStep ==
  \/ homeStream /\ ~homeStream'
  \/ homeDetecting /\ ~homeDetecting'
  \/ homeMounted /\ ~homeMounted'

\* C32: at most one loop callback is queued, it is the one detectionLoopId
\* names and it is queued only while isDetecting; detectFacesAndEyes runs
\* only in steps that leave isDetecting true; and stopWebcam, turning the
\* detection off and the unmount leave isDetecting false and nothing queued.
C32_LoopOnlyWhileDetecting ==
  /\ [](/\ Cardinality(loopQueue) <= 1
        /\ loopQueue # {} => (homeDetecting /\ loopQueue = {detectionLoopId})
        /\ faceLast.called => homeDetecting
        /\ ~homeDetecting => (loopQueue = {} /\ ~faceLast.called))
  /\ [][HomeStopStep => (~homeDetecting' /\ loopQueue' = {}
                           /\ ~faceLast'.called)]_vars

\* A loop that had run frames was stopped; the page is mounted, without a
\* stream, and nothing is queued.
C32_Witness ==
  /\ ~homeDetecting
  /\ ~homeStream
  /\ loopNext >= 3
  /\ loopQueue = {}
  /\ homeMounted

====
